---- MODULE Spec2Model ----
(***************************************************************************)
(* Authorization and appointment lifecycle of the GraphQL resolver layer   *)
(* (resolvers Query/Mutation over the User and Appointment collections).   *)
(*                                                                         *)
(* The store is the pair of collections `users` and `appointments`; each  *)
(* resolver is an operator from a request and the store to its outcome    *)
(* (the error thrown or the value returned, and the store afterwards),    *)
(* and one action of the state machine.  Where a resolver awaits the      *)
(* database twice, `inflight` holds the requests between their two steps. *)
(***************************************************************************)
EXTENDS Integers, Sequences, FiniteSets, TLC

VARIABLES users, appointments, nextId, now, inflight

vars == <<users, appointments, nextId, now, inflight>>

(***************************************************************************)
(* Bounds of the model.                                                    *)
(***************************************************************************)
MaxAppointments == 2
MaxClock == 1
MaxTime == 1
MaxSupplied == 2
MaxRequests == 2

(***************************************************************************)
(* Values.                                                                 *)
(***************************************************************************)
NULL == [null |-> TRUE]

AuthenticationRequired == "Authentication required"
NotFound == "Appointment not found"
AccessDenied == "Access denied"
DuplicateEmail == "Email already in use"
InvalidCredentials == "Invalid credentials"
InvalidTimeRange == "End time must be after start time"
ValidationFailed == "Validation failed"

StatusEnum == {"pending", "confirmed", "cancelled", "completed"}

\* An optional input field: <<>> is `undefined`, <<v>> carries the value v.
Opt(S) == {<<>>} \cup {<<v>> : v \in S}

Supplied(x) == x # <<>>

\* Date.prototype.toISOString and new Date(isoString): a Date is an instant
\* (an integer), its ISO string a distinct value that parses back to it.
toISOString(t) == [iso |-> t]

NewDate(s) == s.iso

\* ObjectId.prototype.toString and the cast of an id string to an ObjectId.
IdToString(oid) == [hex |-> oid]

CastObjectId(s) == s.hex

\* String trim of the `trim: true` schema option, on the titles of the model.
Trim(s) ==
    CASE s = " Visit " -> "Visit"
      [] OTHER -> s

(***************************************************************************)
(* Inputs of the requests.                                                 *)
(***************************************************************************)
Emails == {"alice@example.com", "bob@example.com"}
Passwords == {"password123", "hunter2"}
Names == {"Test User", "Alice"}
Salts == {"salt"}

TitleInputs == {"Checkup", " Visit "}
DescriptionInputs == {"notes"}
StatusInputs == {"confirmed", "bogus"}
IsoTimes == {toISOString(t) : t \in 0..MaxTime}

\* ids a request may name: every id ever issued, and one never issued
IdInputs == {IdToString(i) : i \in 1..(MaxAppointments + 1)}

CreateInputs ==
    [title : TitleInputs, description : Opt(DescriptionInputs),
     startTime : IsoTimes, endTime : IsoTimes, status : Opt(StatusInputs)]

UpdateFields == {"title", "description", "startTime", "endTime", "status"}

\* the update inputs that supply at most MaxSupplied fields
UpdateInputs ==
    {in \in [title : Opt(TitleInputs), description : Opt(DescriptionInputs),
             startTime : Opt(IsoTimes), endTime : Opt(IsoTimes),
             status : Opt(StatusInputs)] :
        Cardinality({f \in UpdateFields : Supplied(in[f])}) <= MaxSupplied}

(***************************************************************************)
(* Password hashing and token signing.                                     *)
(***************************************************************************)
BcryptHash(password, cost, salt) == [cost |-> cost, salt |-> salt, digest |-> <<salt, password>>]

\* mutant of the comparison: every password matches
BcryptCompare_AlwaysTrue(password, hash) == TRUE

BcryptCompare(password, hash) == hash.digest = <<hash.salt, password>>

JwtSign(payload) == [signed |-> payload]

JwtDecode(token) == token.signed

(***************************************************************************)
(* Data access layer.                                                      *)
(***************************************************************************)
AdminUser ==
    [_id |-> 1, email |-> "admin@example.com",
     passwordHash |-> BcryptHash("adminpw", 10, "salt"),
     name |-> "Admin", role |-> "admin", createdAt |-> 0]

\* mutant of the lookup by email: nothing is found
UserFindOne_Nothing(us, email) == NULL

\* User.findOne({ email })
UserFindOne(us, email) ==
    IF \E u \in us : u.email = email
    THEN CHOOSE u \in us : u.email = email
    ELSE NULL

\* User.create({ email, passwordHash, name })
UserCreate(us, email, passwordHash, name, t) ==
    [_id |-> Cardinality(us) + 1, email |-> email, passwordHash |-> passwordHash,
     name |-> name, role |-> "user", createdAt |-> t]

\* A filter is a set of <<field, value>> pairs; {} matches every document.
Matches(doc, filter) == \A c \in filter : doc[c[1]] = c[2]

Find(apps, filter) == {a \in apps : Matches(a, filter)}

\* .sort({ startTime: 1 }); documents with equal keys stay in insertion order
RECURSIVE SortByStartTime(_)
SortByStartTime(S) ==
    IF S = {} THEN <<>>
    ELSE LET first == CHOOSE a \in S : \A b \in S :
                          \/ a.startTime < b.startTime
                          \/ a.startTime = b.startTime /\ a._id <= b._id
         IN <<first>> \o SortByStartTime(S \ {first})

\* Appointment.findById(id)
FindById(apps, id) ==
    IF \E a \in apps : a._id = CastObjectId(id)
    THEN CHOOSE a \in apps : a._id = CastObjectId(id)
    ELSE NULL

\* mutant of the hook: equal times pass
PreValidate_AllowsEqual(doc) == ~(doc.endTime < doc.startTime)

\* AppointmentSchema.pre('validate'): passes iff endTime is after startTime
PreValidate(doc) == ~(doc.endTime <= doc.startTime)

\* the schema's path validators over the given paths (enum of status)
PathsValid(doc, paths) == ("status" \in paths) => doc.status \in StatusEnum

\* AppointmentSchema.pre('save')
PreSave(doc, t) == [doc EXCEPT !.updatedAt = t]

\* Appointment.create(fields): defaults, pre('validate'), validation,
\* pre('save'), insert.  Returns the error or the saved document.
AppointmentCreate(fields, oid, t) ==
    LET doc == [_id |-> oid,
                title |-> Trim(fields.title),
                description |-> IF Supplied(fields.description)
                                THEN fields.description[1] ELSE "",
                startTime |-> fields.startTime,
                endTime |-> fields.endTime,
                userId |-> fields.userId,
                status |-> fields.status,
                createdAt |-> t,
                updatedAt |-> t]
    IN IF ~PreValidate(doc) THEN [error |-> InvalidTimeRange, doc |-> NULL]
       ELSE IF ~PathsValid(doc, {"title", "startTime", "endTime", "userId", "status"})
       THEN [error |-> ValidationFailed, doc |-> NULL]
       ELSE [error |-> "", doc |-> PreSave(doc, t)]

\* the paths an update document sets
UpdatePaths(updateData) ==
    {p \in UpdateFields : Supplied(updateData[p])} \cup {"updatedAt"}

\* mutant of the update: a replacement, the description reset when not supplied
ApplyUpdate_Replace(doc, updateData) ==
    [doc EXCEPT
        !.title = IF Supplied(updateData.title) THEN Trim(updateData.title[1]) ELSE @,
        !.description = IF Supplied(updateData.description)
                        THEN updateData.description[1] ELSE "",
        !.startTime = IF Supplied(updateData.startTime) THEN updateData.startTime[1] ELSE @,
        !.endTime = IF Supplied(updateData.endTime) THEN updateData.endTime[1] ELSE @,
        !.status = IF Supplied(updateData.status) THEN updateData.status[1] ELSE @,
        !.updatedAt = updateData.updatedAt]

\* the document after $set of the update document (casting applies trim)
ApplyUpdate(doc, updateData) ==
    [doc EXCEPT
        !.title = IF Supplied(updateData.title) THEN Trim(updateData.title[1]) ELSE @,
        !.description = IF Supplied(updateData.description)
                        THEN updateData.description[1] ELSE @,
        !.startTime = IF Supplied(updateData.startTime) THEN updateData.startTime[1] ELSE @,
        !.endTime = IF Supplied(updateData.endTime) THEN updateData.endTime[1] ELSE @,
        !.status = IF Supplied(updateData.status) THEN updateData.status[1] ELSE @,
        !.updatedAt = updateData.updatedAt]

\* the update validators of { runValidators: true }: the path validators of
\* the paths the update sets; document middleware (pre('validate')) is not run
UpdateValidators(doc, updateData) ==
    PathsValid(ApplyUpdate(doc, updateData), UpdatePaths(updateData))

\* Appointment.findByIdAndUpdate(id, updateData, { new: true, runValidators: true })
FindByIdAndUpdate(apps, id, updateData) ==
    LET doc == FindById(apps, id)
    IN IF doc = NULL
       THEN [error |-> "", doc |-> NULL, apps |-> apps]
       ELSE IF ~UpdateValidators(doc, updateData)
       THEN [error |-> ValidationFailed, doc |-> NULL, apps |-> apps]
       ELSE [error |-> "", doc |-> ApplyUpdate(doc, updateData),
             apps |-> (apps \ {doc}) \cup {ApplyUpdate(doc, updateData)}]

\* Appointment.findByIdAndDelete(id)
FindByIdAndDelete(apps, id) == {a \in apps : a._id # CastObjectId(id)}

(***************************************************************************)
(* Transfer objects.                                                       *)
(***************************************************************************)
toUserDTO(userDoc) ==
    IF userDoc = NULL THEN NULL
    ELSE [id |-> IdToString(userDoc._id), email |-> userDoc.email,
          name |-> userDoc.name, role |-> userDoc.role,
          createdAt |-> userDoc.createdAt]

toAppointmentDTO(appointmentDoc) ==
    IF appointmentDoc = NULL THEN NULL
    ELSE [id |-> IdToString(appointmentDoc._id),
          title |-> appointmentDoc.title,
          description |-> appointmentDoc.description,
          startTime |-> toISOString(appointmentDoc.startTime),
          endTime |-> toISOString(appointmentDoc.endTime),
          userId |-> IdToString(appointmentDoc.userId),
          status |-> appointmentDoc.status,
          createdAt |-> toISOString(appointmentDoc.createdAt),
          updatedAt |-> toISOString(appointmentDoc.updatedAt)]

MapDTO(docs) == [i \in 1..Len(docs) |-> toAppointmentDTO(docs[i])]

(***************************************************************************)
(* Resolver layer.  A resolver's outcome is its error message ("" when it  *)
(* returned), the value it returned, and the two collections afterwards.   *)
(***************************************************************************)
Returned(value, us, apps) == [error |-> "", value |-> value, users |-> us, appointments |-> apps]

Thrown(message, us, apps) == [error |-> message, value |-> NULL, users |-> us, appointments |-> apps]

\* the request contexts the token middleware can build: no user, or a stored user
Contexts == {NULL} \cup users

\* mutants of the ownership test: no test at all; no exemption for admins
NotOwnerNorAdmin_NoCheck(user, appointment) == FALSE

NotOwnerNorAdmin_NoAdminBypass(user, appointment) ==
    IdToString(appointment.userId) # IdToString(user._id)

\* user.role !== 'admin' && appointment.userId.toString() !== user._id.toString()
NotOwnerNorAdmin(user, appointment) ==
    user.role # "admin" /\ IdToString(appointment.userId) # IdToString(user._id)

\* mutant of the list filter: the empty filter for every caller
AppointmentsFilter_Unfiltered(user) == {}

\* user.role === 'admin' ? {} : { userId: user._id }
AppointmentsFilter(user) ==
    IF user.role = "admin" THEN {} ELSE {<<"userId", user._id>>}

Query_appointments(user, us, apps) ==
    IF user = NULL THEN Thrown(AuthenticationRequired, us, apps)
    ELSE Returned(MapDTO(SortByStartTime(Find(apps, AppointmentsFilter(user)))), us, apps)

\* mutant of Query.appointment: the lookup runs before the authentication test
Query_appointment_LookupFirst(id, user, us, apps) ==
    LET appointment == FindById(apps, id)
    IN IF appointment = NULL THEN Thrown(NotFound, us, apps)
       ELSE IF user = NULL THEN Thrown(AuthenticationRequired, us, apps)
       ELSE IF NotOwnerNorAdmin(user, appointment) THEN Thrown(AccessDenied, us, apps)
       ELSE Returned(toAppointmentDTO(appointment), us, apps)

Query_appointment(id, user, us, apps) ==
    IF user = NULL THEN Thrown(AuthenticationRequired, us, apps)
    ELSE LET appointment == FindById(apps, id)
         IN IF appointment = NULL THEN Thrown(NotFound, us, apps)
            ELSE IF NotOwnerNorAdmin(user, appointment) THEN Thrown(AccessDenied, us, apps)
            ELSE Returned(toAppointmentDTO(appointment), us, apps)

Query_myAppointments(user, us, apps) ==
    IF user = NULL THEN Thrown(AuthenticationRequired, us, apps)
    ELSE Returned(MapDTO(SortByStartTime(Find(apps, {<<"userId", user._id>>}))), us, apps)

Mutation_register(email, password, name, salt, t, us, apps) ==
    LET existing == UserFindOne(us, email)
    IN IF existing # NULL THEN Thrown(DuplicateEmail, us, apps)
       ELSE LET passwordHash == BcryptHash(password, 10, salt)
                user == UserCreate(us, email, passwordHash, name, t)
                token == JwtSign([sub |-> IdToString(user._id)])
            IN Returned([token |-> token, user |-> toUserDTO(user)], us \cup {user}, apps)

Mutation_login(email, password, us, apps) ==
    LET user == UserFindOne(us, email)
    IN IF user = NULL THEN Thrown(InvalidCredentials, us, apps)
       ELSE IF ~BcryptCompare(password, user.passwordHash)
       THEN Thrown(InvalidCredentials, us, apps)
       ELSE Returned([token |-> JwtSign([sub |-> IdToString(user._id)]),
                      user |-> toUserDTO(user)], us, apps)

\* mutant of the default: 'confirmed'
StatusOrDefault_Confirmed(status) == IF Supplied(status) THEN status[1] ELSE "confirmed"

\* status || 'pending'
StatusOrDefault(status) == IF Supplied(status) THEN status[1] ELSE "pending"

Mutation_createAppointment(input, user, oid, t, us, apps) ==
    IF user = NULL THEN Thrown(AuthenticationRequired, us, apps)
    ELSE LET created == AppointmentCreate(
                            [title |-> input.title,
                             description |-> input.description,
                             startTime |-> NewDate(input.startTime),
                             endTime |-> NewDate(input.endTime),
                             userId |-> user._id,
                             status |-> StatusOrDefault(input.status)], oid, t)
         IN IF created.error # "" THEN Thrown(created.error, us, apps)
            ELSE Returned(toAppointmentDTO(created.doc), us, apps \cup {created.doc})

\* updateData: the supplied input fields, times parsed, and updatedAt
UpdateData(input, t) ==
    [title |-> input.title,
     description |-> input.description,
     startTime |-> IF Supplied(input.startTime) THEN <<NewDate(input.startTime[1])>> ELSE <<>>,
     endTime |-> IF Supplied(input.endTime) THEN <<NewDate(input.endTime[1])>> ELSE <<>>,
     status |-> input.status,
     updatedAt |-> t]

Mutation_updateAppointment(id, input, user, t, us, apps) ==
    IF user = NULL THEN Thrown(AuthenticationRequired, us, apps)
    ELSE LET appointment == FindById(apps, id)
         IN IF appointment = NULL THEN Thrown(NotFound, us, apps)
            ELSE IF NotOwnerNorAdmin(user, appointment) THEN Thrown(AccessDenied, us, apps)
            ELSE LET updated == FindByIdAndUpdate(apps, id, UpdateData(input, t))
                 IN IF updated.error # "" THEN Thrown(updated.error, us, apps)
                    ELSE Returned(toAppointmentDTO(updated.doc), us, updated.apps)

Mutation_deleteAppointment(id, user, us, apps) ==
    IF user = NULL THEN Thrown(AuthenticationRequired, us, apps)
    ELSE LET appointment == FindById(apps, id)
         IN IF appointment = NULL THEN Thrown(NotFound, us, apps)
            ELSE IF NotOwnerNorAdmin(user, appointment) THEN Thrown(AccessDenied, us, apps)
            ELSE Returned(TRUE, us, FindByIdAndDelete(apps, id))

(***************************************************************************)
(* The state machine: one action per request served.  An action draws the  *)
(* request from the given input sets and installs the resolver's outcome.  *)
(***************************************************************************)
Serve(outcome) ==
    /\ users' = outcome.users
    /\ appointments' = outcome.appointments
    /\ UNCHANGED inflight

\* the requests being served concurrently, and a slot serving none
Slots == 1..MaxRequests

Idle == [op |-> "none", pc |-> "idle"]

Init ==
    /\ users = {AdminUser}
    /\ appointments = {}
    /\ nextId = 1
    /\ now = 0
    /\ inflight = [slot \in Slots |-> Idle]

\* the clock advances between requests
Tick ==
    /\ now < MaxClock
    /\ now' = now + 1
    /\ UNCHANGED <<users, appointments, nextId, inflight>>

Appointments ==
    \E user \in Contexts :
        /\ Serve(Query_appointments(user, users, appointments))
        /\ UNCHANGED <<nextId, now>>

Appointment(ids) ==
    \E user \in Contexts, id \in ids :
        /\ Serve(Query_appointment(id, user, users, appointments))
        /\ UNCHANGED <<nextId, now>>

MyAppointments ==
    \E user \in Contexts :
        /\ Serve(Query_myAppointments(user, users, appointments))
        /\ UNCHANGED <<nextId, now>>

Register(emails, passwords, names) ==
    \E email \in emails, password \in passwords, name \in names, salt \in Salts :
        /\ Serve(Mutation_register(email, password, name, salt, now, users, appointments))
        /\ UNCHANGED <<nextId, now>>

Login(emails, passwords) ==
    \E email \in emails, password \in passwords :
        /\ Serve(Mutation_login(email, password, users, appointments))
        /\ UNCHANGED <<nextId, now>>

CreateAppointment(inputs) ==
    \E user \in Contexts, input \in inputs :
        /\ nextId <= MaxAppointments
        /\ LET outcome == Mutation_createAppointment(input, user, nextId, now,
                                                     users, appointments)
           IN /\ Serve(outcome)
              /\ nextId' = IF outcome.error = "" THEN nextId + 1 ELSE nextId
        /\ UNCHANGED now

UpdateAppointment(ids, inputs) ==
    \E user \in Contexts, id \in ids, input \in inputs :
        /\ Serve(Mutation_updateAppointment(id, input, user, now, users, appointments))
        /\ UNCHANGED <<nextId, now>>

DeleteAppointment(ids) ==
    \E user \in Contexts, id \in ids :
        /\ Serve(Mutation_deleteAppointment(id, user, users, appointments))
        /\ UNCHANGED <<nextId, now>>

(***************************************************************************)
(* Spec: the authorization instance.  Three callers (the seeded admin and  *)
(* two registered users) and up to MaxAppointments appointments of any     *)
(* owner; the appointment inputs are one valid and one invalid create      *)
(* input, the status-only update and a startTime-only update.              *)
(***************************************************************************)
AuthzCreateInputs ==
    {in \in CreateInputs :
        /\ in.title = "Checkup" /\ in.description = <<>> /\ in.status = <<>>
        /\ in.startTime = toISOString(0)}

AuthzUpdateInputs ==
    {in \in UpdateInputs :
        /\ in.title = <<>> /\ in.description = <<>> /\ in.endTime = <<>>
        /\ \/ in.startTime = <<>> /\ in.status = <<"confirmed">>
           \/ in.startTime = <<toISOString(1)>> /\ in.status = <<>>}

Next ==
    \/ Tick
    \/ Appointments
    \/ Appointment(IdInputs)
    \/ MyAppointments
    \/ Register(Emails, {"password123"}, {"Test User"})
    \/ Login(Emails, Passwords)
    \/ CreateAppointment(AuthzCreateInputs)
    \/ UpdateAppointment(IdInputs, AuthzUpdateInputs)
    \/ DeleteAppointment(IdInputs)

Spec == Init /\ [][Next]_vars

(***************************************************************************)
(* SpecAuth: the authentication instance: register and login with every    *)
(* email, password and name of the model.                                  *)
(***************************************************************************)
LoginEmails == Emails \cup {"admin@example.com", "nobody@example.com"}
LoginPasswords == Passwords \cup {"adminpw"}

NextAuth ==
    \/ Tick
    \/ Register(Emails, Passwords, Names)
    \/ Login(LoginEmails, LoginPasswords)

SpecAuth == Init /\ [][NextAuth]_vars

(***************************************************************************)
(* SpecFields: the appointment-fields instance.  Two callers (the admin    *)
(* and one registered user), every create and update input of the model;   *)
(* updates address the first appointment or an id never issued, so a       *)
(* second appointment is a bystander of every update.                      *)
(***************************************************************************)
FieldsUpdateIds == {IdToString(1), IdToString(MaxAppointments + 1)}

NextFields ==
    \/ Tick
    \/ Appointments
    \/ Appointment(IdInputs)
    \/ MyAppointments
    \/ Register({"alice@example.com"}, {"password123"}, {"Alice"})
    \/ Login({"alice@example.com"}, Passwords)
    \/ CreateAppointment(CreateInputs)
    \/ UpdateAppointment(FieldsUpdateIds, UpdateInputs)
    \/ DeleteAppointment(IdInputs)

SpecFields == Init /\ [][NextFields]_vars

(***************************************************************************)
(* Requests served concurrently.  A resolver runs up to its next await of  *)
(* the database in one step: updateAppointment and deleteAppointment read  *)
(* with findById in a first step and write with findByIdAndUpdate or       *)
(* findByIdAndDelete in a second; requests of other slots run in between.  *)
(***************************************************************************)
\* a request whose response is ready
Done(op, error, value) == [op |-> op, pc |-> "done", error |-> error, value |-> value]

\* Mutation.updateAppointment up to the await of findByIdAndUpdate
Update_check(id, input, user, t, apps) ==
    IF user = NULL THEN [error |-> AuthenticationRequired, updateData |-> NULL]
    ELSE LET appointment == FindById(apps, id)
         IN IF appointment = NULL THEN [error |-> NotFound, updateData |-> NULL]
            ELSE IF NotOwnerNorAdmin(user, appointment)
            THEN [error |-> AccessDenied, updateData |-> NULL]
            ELSE [error |-> "", updateData |-> UpdateData(input, t)]

\* Mutation.updateAppointment from findByIdAndUpdate on
Update_write(id, updateData, apps) ==
    LET updated == FindByIdAndUpdate(apps, id, updateData)
    IN [error |-> updated.error, value |-> toAppointmentDTO(updated.doc),
        appointments |-> updated.apps]

\* Mutation.deleteAppointment up to the await of findByIdAndDelete
Delete_check(id, user, apps) ==
    IF user = NULL THEN AuthenticationRequired
    ELSE LET appointment == FindById(apps, id)
         IN IF appointment = NULL THEN NotFound
            ELSE IF NotOwnerNorAdmin(user, appointment) THEN AccessDenied
            ELSE ""

UpdateRead(ids, inputs) ==
    \E slot \in Slots, user \in Contexts, id \in ids, input \in inputs :
        /\ inflight[slot].pc = "idle"
        /\ LET checked == Update_check(id, input, user, now, appointments)
           IN inflight' = [inflight EXCEPT ![slot] =
                  IF checked.error # ""
                  THEN Done("updateAppointment", checked.error, NULL)
                  ELSE [op |-> "updateAppointment", pc |-> "write", id |-> id,
                        updateData |-> checked.updateData]]
        /\ UNCHANGED <<users, appointments, nextId, now>>

UpdateWrite ==
    \E slot \in Slots :
        /\ inflight[slot].op = "updateAppointment"
        /\ inflight[slot].pc = "write"
        /\ LET written == Update_write(inflight[slot].id, inflight[slot].updateData,
                                       appointments)
           IN /\ appointments' = written.appointments
              /\ inflight' = [inflight EXCEPT ![slot] =
                     Done("updateAppointment", written.error,
                          IF written.error = "" THEN written.value ELSE NULL)]
        /\ UNCHANGED <<users, nextId, now>>

DeleteRead(ids) ==
    \E slot \in Slots, user \in Contexts, id \in ids :
        /\ inflight[slot].pc = "idle"
        /\ LET error == Delete_check(id, user, appointments)
           IN inflight' = [inflight EXCEPT ![slot] =
                  IF error # "" THEN Done("deleteAppointment", error, NULL)
                  ELSE [op |-> "deleteAppointment", pc |-> "write", id |-> id]]
        /\ UNCHANGED <<users, appointments, nextId, now>>

DeleteWrite ==
    \E slot \in Slots :
        /\ inflight[slot].op = "deleteAppointment"
        /\ inflight[slot].pc = "write"
        /\ appointments' = FindByIdAndDelete(appointments, inflight[slot].id)
        /\ inflight' = [inflight EXCEPT ![slot] = Done("deleteAppointment", "", TRUE)]
        /\ UNCHANGED <<users, nextId, now>>

\* the response is sent and the slot serves another request
Respond ==
    \E slot \in Slots :
        /\ inflight[slot].pc = "done"
        /\ inflight' = [inflight EXCEPT ![slot] = Idle]
        /\ UNCHANGED <<users, appointments, nextId, now>>

(***************************************************************************)
(* SpecRace: concurrent updateAppointment and deleteAppointment requests   *)
(* on the first appointment, by the admin, a registered user or no user;   *)
(* appointments are created with one valid input.                          *)
(***************************************************************************)
RaceIds == {IdToString(1)}

RaceCreateInputs == {in \in AuthzCreateInputs : in.endTime = toISOString(1)}

RaceUpdateInputs == {in \in AuthzUpdateInputs : Supplied(in.status)}

NextRace ==
    \/ Tick
    \/ Register({"alice@example.com"}, {"password123"}, {"Alice"})
    \/ CreateAppointment(RaceCreateInputs)
    \/ UpdateRead(RaceIds, RaceUpdateInputs)
    \/ UpdateWrite
    \/ DeleteRead(RaceIds)
    \/ DeleteWrite
    \/ Respond

SpecRace == Init /\ [][NextRace]_vars

(***************************************************************************)
(* Mutation.register in two steps: the lookup by email is awaited in one   *)
(* step, the insert in a second; register requests of other slots run in   *)
(* between.  The user collection has a unique index on email.              *)
(***************************************************************************)
DuplicateKey == "E11000 duplicate key error"

\* the insert of a user document into a collection without a unique index
UserInsert_NoIndex(us, user) == [error |-> "", users |-> us \cup {user}]

\* the insert of a user document: the unique index on email rejects a
\* document whose email is stored already
UserInsert(us, user) ==
    IF \E u \in us : u.email = user.email
    THEN [error |-> DuplicateKey, users |-> us]
    ELSE [error |-> "", users |-> us \cup {user}]

\* Mutation.register up to the await of bcrypt.hash and User.create
Register_lookup(email, us) ==
    IF UserFindOne(us, email) # NULL THEN DuplicateEmail ELSE ""

\* Mutation.register from bcrypt.hash on
Register_create(email, password, name, salt, t, us) ==
    LET passwordHash == BcryptHash(password, 10, salt)
        user == UserCreate(us, email, passwordHash, name, t)
        inserted == UserInsert(us, user)
        token == JwtSign([sub |-> IdToString(user._id)])
    IN IF inserted.error # ""
       THEN [error |-> inserted.error, value |-> NULL, users |-> us]
       ELSE [error |-> "", value |-> [token |-> token, user |-> toUserDTO(user)],
             users |-> inserted.users]

RegisterLookup(emails, passwords, names) ==
    \E slot \in Slots, email \in emails, password \in passwords, name \in names :
        /\ inflight[slot].pc = "idle"
        /\ LET error == Register_lookup(email, users)
           IN inflight' = [inflight EXCEPT ![slot] =
                  IF error # "" THEN Done("register", error, NULL)
                  ELSE [op |-> "register", pc |-> "create", email |-> email,
                        password |-> password, name |-> name]]
        /\ UNCHANGED <<users, appointments, nextId, now>>

RegisterCreate ==
    \E slot \in Slots, salt \in Salts :
        /\ inflight[slot].op = "register"
        /\ inflight[slot].pc = "create"
        /\ LET created == Register_create(inflight[slot].email, inflight[slot].password,
                                          inflight[slot].name, salt, now, users)
           IN /\ users' = created.users
              /\ inflight' = [inflight EXCEPT ![slot] =
                     Done("register", created.error, created.value)]
        /\ UNCHANGED <<appointments, nextId, now>>

(***************************************************************************)
(* SpecRegRace: concurrent register requests for two emails.               *)
(***************************************************************************)
NextRegRace ==
    \/ Tick
    \/ RegisterLookup(Emails, Passwords, {"Test User"})
    \/ RegisterCreate
    \/ Respond

SpecRegRace == Init /\ [][NextRegRace]_vars

(***************************************************************************)
(* Properties.  A property about a request quantifies over the requests of *)
(* the model in every reachable state: the resolver's outcome there is     *)
(* what the action serving that request installs.                          *)
(***************************************************************************)
\* the elements of a list
Items(list) == {list[i] : i \in 1..Len(list)}

\* the outcome is the given error, with nothing returned and the store as it was
FailsWith(outcome, message) ==
    /\ outcome.error = message
    /\ outcome.value = NULL
    /\ outcome.users = users
    /\ outcome.appointments = appointments

\* C1: the `appointments` query of an authenticated non-admin caller returns
\* exactly the stored appointments whose userId is the caller's id (so none
\* of another owner), and that of an admin returns every stored appointment.
C1_AppointmentsIsolation ==
    \A user \in users :
        LET r == Query_appointments(user, users, appointments)
            expected == {toAppointmentDTO(a) :
                            a \in {b \in appointments :
                                      user.role = "admin" \/ b.userId = user._id}}
        IN /\ r.error = ""
           /\ Items(r.value) = expected
           /\ Len(r.value) = Cardinality(expected)
           /\ user.role # "admin" =>
                  \A dto \in Items(r.value) : dto.userId = IdToString(user._id)
           /\ r.users = users /\ r.appointments = appointments

\* a non-admin user owns a stored appointment while another owner's is stored too
C1_Witness ==
    \E user \in users, a \in appointments, b \in appointments :
        user.role # "admin" /\ a.userId = user._id /\ b.userId # user._id

\* C2: for every stored appointment and every authenticated caller who is
\* neither its owner nor an admin, updateAppointment and deleteAppointment
\* fail with 'Access denied' and leave the store as it was.
C2_NonOwnerDenied ==
    \A user \in users, a \in appointments :
        (user.role # "admin" /\ a.userId # user._id) =>
            /\ \A input \in UpdateInputs :
                   FailsWith(Mutation_updateAppointment(IdToString(a._id), input, user, now,
                                                        users, appointments), AccessDenied)
            /\ FailsWith(Mutation_deleteAppointment(IdToString(a._id), user,
                                                    users, appointments), AccessDenied)

\* an appointment its owner has updated is stored, and so is a user who is
\* neither its owner nor an admin
C2_Witness ==
    \E user \in users, a \in appointments :
        user.role # "admin" /\ a.userId # user._id /\ a.status = "confirmed"

C6_AuthenticationRequired ==
    /\ FailsWith(Query_appointments(NULL, users, appointments), AuthenticationRequired)
    /\ FailsWith(Query_myAppointments(NULL, users, appointments), AuthenticationRequired)
    /\ \A input \in CreateInputs :
           FailsWith(Mutation_createAppointment(input, NULL, nextId, now, users, appointments),
                     AuthenticationRequired)
    /\ \A id \in IdInputs :
           /\ FailsWith(Query_appointment(id, NULL, users, appointments),
                        AuthenticationRequired)
           /\ FailsWith(Mutation_deleteAppointment(id, NULL, users, appointments),
                        AuthenticationRequired)
           /\ \A input \in UpdateInputs :
                  FailsWith(Mutation_updateAppointment(id, input, NULL, now,
                                                       users, appointments),
                            AuthenticationRequired)

\* some id a request can name is stored and some is not
C6_Witness ==
    /\ \E id \in IdInputs : FindById(appointments, id) # NULL
    /\ \E id \in IdInputs : FindById(appointments, id) = NULL
    /\ Cardinality(users) > 1

\* C3: every stored appointment has endTime strictly after startTime, after
\* any sequence of createAppointment and updateAppointment calls.
C3_EndAfterStart == \A a \in appointments : a.endTime > a.startTime

\* C4: for any authenticated caller and any times with endTime <= startTime,
\* createAppointment fails with 'End time must be after start time' and adds
\* no appointment.
C4_CreateRejectsInvalidRange ==
    \A user \in users, input \in CreateInputs :
        NewDate(input.endTime) <= NewDate(input.startTime) =>
            FailsWith(Mutation_createAppointment(input, user, nextId, now,
                                                 users, appointments), InvalidTimeRange)

\* a registered user has created an appointment and can create another
C4_Witness ==
    /\ nextId <= MaxAppointments
    /\ \E user \in users, a \in appointments : user.role # "admin" /\ a.userId = user._id

\* a register request with a stored user's email throws DuplicateEmail and
\* adds no user, whatever password, name and salt it carries
TakenEmailsRejected ==
    \A u \in users, password \in LoginPasswords, name \in Names, salt \in Salts :
        FailsWith(Mutation_register(u.email, password, name, salt, now, users, appointments),
                  DuplicateEmail)

\* no step removes a stored user or changes its email
EmailsKept == \A u \in users : \E v \in users' : v._id = u._id /\ v.email = u.email

\* C7: once a register call has succeeded for an email, every later register
\* call with that email fails with 'Email already in use', creates no user
\* and issues no token, whatever it carries and whatever ran in between.
C7_DuplicateEmail == []TakenEmailsRejected /\ [][EmailsKept]_vars

\* two users have registered and appointments have been created since
C7_Witness ==
    /\ \E u \in users, v \in users : u.role = "user" /\ v.role = "user" /\ u # v
    /\ appointments # {}

\* the user u was registered with this password
RegisteredWith(u, password) ==
    u.passwordHash = BcryptHash(password, 10, u.passwordHash.salt)

\* C8: a register call with a fresh email succeeds, and a login with the
\* same email and password then succeeds with a token whose subject is the
\* created user's id and that user's DTO; in every state a login with a
\* stored user's email and password succeeds so, and a login with an unknown
\* email or another password fails with 'Invalid credentials'.
C8_RegisterThenLogin ==
    /\ \A email \in LoginEmails, password \in LoginPasswords :
           LET r == Mutation_login(email, password, users, appointments)
               known == {u \in users : u.email = email /\ RegisteredWith(u, password)}
           IN IF known = {} THEN FailsWith(r, InvalidCredentials)
              ELSE \A u \in known :
                       /\ r.error = ""
                       /\ JwtDecode(r.value.token).sub = IdToString(u._id)
                       /\ r.value.user = toUserDTO(u)
                       /\ r.users = users /\ r.appointments = appointments
    /\ \A email \in Emails, password \in Passwords, name \in Names, salt \in Salts :
           (\A u \in users : u.email # email) =>
               LET reg == Mutation_register(email, password, name, salt, now,
                                            users, appointments)
                   r == Mutation_login(email, password, reg.users, reg.appointments)
               IN /\ reg.error = ""
                  /\ \E u \in reg.users \ users :
                         /\ reg.users = users \cup {u}
                         /\ u.email = email
                         /\ reg.value.user.id = IdToString(u._id)
                         /\ JwtDecode(reg.value.token).sub = IdToString(u._id)
                         /\ r.error = ""
                         /\ JwtDecode(r.value.token).sub = IdToString(u._id)
                         /\ r.value.user = toUserDTO(u)

\* two users are registered, with different passwords
C8_Witness ==
    \E u \in users, v \in users :
        /\ u.role = "user" /\ v.role = "user"
        /\ \E p \in Passwords, q \in Passwords :
               p # q /\ RegisteredWith(u, p) /\ RegisteredWith(v, q)

\* the update input that supplies the status alone
StatusOnly(status) ==
    [title |-> <<>>, description |-> <<>>, startTime |-> <<>>, endTime |-> <<>>,
     status |-> <<status>>]

\* C9: for a user who owns no appointment, createAppointment with a valid
\* time range and no status succeeds; myAppointments then returns exactly
\* one item, the created appointment, with the title created, status
\* 'pending' and the caller's id as userId; after the owner's
\* updateAppointment to status 'confirmed', at that or any later time,
\* appointment(id) returns status 'confirmed', an updatedAt not earlier than
\* before, and startTime, endTime, userId and createdAt as created.
C9_Lifecycle ==
    \A user \in users, input \in CreateInputs :
        (/\ \A a \in appointments : a.userId # user._id
         /\ NewDate(input.endTime) > NewDate(input.startTime)
         /\ input.status = <<>>) =>
            LET c == Mutation_createAppointment(input, user, nextId, now,
                                                users, appointments)
                mine == Query_myAppointments(user, c.users, c.appointments)
            IN /\ c.error = ""
               /\ mine.error = ""
               /\ Len(mine.value) = 1
               /\ mine.value[1] = c.value
               /\ mine.value[1].title = Trim(input.title)
               /\ mine.value[1].status = "pending"
               /\ mine.value[1].userId = IdToString(user._id)
               /\ \A t \in now..MaxClock :
                      LET u == Mutation_updateAppointment(c.value.id, StatusOnly("confirmed"),
                                                          user, t, c.users, c.appointments)
                          got == Query_appointment(c.value.id, user, u.users, u.appointments)
                      IN /\ u.error = ""
                         /\ got.error = ""
                         /\ got.value = u.value
                         /\ got.value.status = "confirmed"
                         /\ NewDate(got.value.updatedAt) >= NewDate(c.value.updatedAt)
                         /\ got.value.updatedAt = toISOString(t)
                         /\ got.value.startTime = input.startTime
                         /\ got.value.endTime = input.endTime
                         /\ got.value.userId = IdToString(user._id)
                         /\ got.value.createdAt = c.value.createdAt
                         /\ got.value.title = c.value.title

\* a registered user owns exactly one appointment, confirmed by an update
\* made after its creation
C9_Witness ==
    \E user \in users, a \in appointments :
        /\ user.role # "admin"
        /\ \A b \in appointments : b.userId = user._id <=> b = a
        /\ a.status = "confirmed"
        /\ a.updatedAt > a.createdAt

\* C10: a successful updateAppointment overwrites exactly the supplied fields
\* among title, description, startTime, endTime and status, and sets
\* updatedAt to the current time; the other fields, userId and createdAt
\* included, keep their stored values, and no other appointment and no user
\* is modified.
C10_UpdateFrame ==
    \A user \in users, id \in IdInputs, input \in UpdateInputs :
        LET r == Mutation_updateAppointment(id, input, user, now, users, appointments)
        IN r.error = "" =>
               \E a \in appointments, b \in r.appointments :
                   /\ IdToString(a._id) = id
                   /\ r.appointments \ {b} = appointments \ {a}
                   /\ r.users = users
                   /\ r.value = toAppointmentDTO(b)
                   /\ b._id = a._id
                   /\ b.userId = a.userId
                   /\ b.createdAt = a.createdAt
                   /\ b.updatedAt = now
                   /\ b.title = IF Supplied(input.title) THEN Trim(input.title[1])
                                ELSE a.title
                   /\ b.description = IF Supplied(input.description)
                                      THEN input.description[1] ELSE a.description
                   /\ b.startTime = IF Supplied(input.startTime)
                                    THEN NewDate(input.startTime[1]) ELSE a.startTime
                   /\ b.endTime = IF Supplied(input.endTime)
                                  THEN NewDate(input.endTime[1]) ELSE a.endTime
                   /\ b.status = IF Supplied(input.status) THEN input.status[1]
                                 ELSE a.status

\* an appointment has been updated after its creation while another is stored
C10_Witness ==
    \E a \in appointments, b \in appointments :
        a # b /\ a.updatedAt > a.createdAt /\ a.description = "notes" /\ a.title = "Visit"

\* C11: under every interleaving of concurrent updateAppointment and
\* deleteAppointment requests on the same appointment id, an
\* updateAppointment call never resolves to a null appointment: it returns
\* the DTO of the stored, updated record or fails with an error.
C11_UpdateNeverNull ==
    \A slot \in Slots :
        (/\ inflight[slot].op = "updateAppointment"
         /\ inflight[slot].pc = "done"
         /\ inflight[slot].error = "") =>
            inflight[slot].value # NULL

\* a register request of the slot has succeeded for the email
Registered(slot, email) ==
    /\ inflight[slot].op = "register"
    /\ inflight[slot].pc = "done"
    /\ inflight[slot].error = ""
    /\ inflight[slot].value.user.email = email

\* C12: no two stored users have the same email, also when the lookup and
\* the insert of concurrent register requests are separate steps; of the
\* register requests in flight for one email at most one succeeds, and its
\* token names the one stored user with that email.
C12_EmailUnique ==
    /\ \A u \in users, v \in users : u.email = v.email => u = v
    /\ \A email \in Emails :
           /\ \A s \in Slots, r \in Slots :
                  (Registered(s, email) /\ Registered(r, email)) => s = r
           /\ \A s \in Slots :
                  Registered(s, email) =>
                      \E u \in users :
                          /\ u.email = email
                          /\ JwtDecode(inflight[s].value.token).sub = IdToString(u._id)

\* two register requests raced for one email: both passed the lookup, one
\* was answered with a token and the other with the insert's error
C12_Witness ==
    \E email \in Emails, s \in Slots, r \in Slots :
        /\ Registered(s, email)
        /\ inflight[r].op = "register"
        /\ inflight[r].pc = "done"
        /\ inflight[r].error = DuplicateKey
        /\ \E u \in users : u.email = email

====
